---- MODULE Spec2Model ----
(***************************************************************************)
(* Theremin Hero: the FM synthesiser of theremingame.c (the game: keyboard *)
(* driven pitch selection, an SDL audio callback rendering the sound) and  *)
(* of sdltest.c (the earlier sound test: fixed pitch, decaying modulation  *)
(* depth).  Both programs have a main thread and an audio thread on which  *)
(* SDL runs the registered callback generateWaveform.                      *)
(*                                                                         *)
(* Numbers.  The C doubles are modelled as exact fixed-point integers:     *)
(*   pitch      in units of 1/200 Hz   (261.63 Hz = 52326)                 *)
(*   phase      in units of 2*pi/TAU   (TAU = 48000 * 200, so that         *)
(*              pitch * i is the phase advance of i samples at 48 kHz)     *)
(*   instr      in halves              (PIANO 2 = 4 halves, GUITAR 0.5 = 1) *)
(*   amplitude  in units of 2e-10      (0.4 = 2000000000)                  *)
(* Rounding of the float/double arithmetic is not modelled.                *)
(***************************************************************************)
EXTENDS Integers, Sequences, FiniteSets, TLC

VARIABLES
    prog,          \* which of the two programs of the repository runs
    pc,            \* position of the main thread in main()
    exit_status,   \* value returned by main (-1 until it returns)
    printed,       \* the messages main has printed with printf
    quit,          \* theremingame.c global
    instr,         \* theremingame.c global (in halves)
    colorblind,    \* theremingame.c global
    mute,          \* theremingame.c global
    key,           \* main's local `key`: the key of the last SDL_KEYDOWN
    my_wavedata,   \* main's local struct wavedata, shared with the callback
    dev,           \* the SDL audio device: unopened, failed, paused, playing, closed
    font,          \* the TTF font: unopened, failed, open, closed
    cb_pc,         \* position of the audio thread inside generateWaveform
    loc,           \* generateWaveform's locals while it runs
    dest,          \* the stream buffer being filled, at the probed indexes
    cont,          \* history: how the previous buffer would have continued
    calls,         \* history: render calls since the envelope was last reset
    period,        \* history: length in render calls of the last envelope cycle
    hist,          \* history of the toggles and frames (kept in SpecToggle only)
    events_left,   \* events the event source will still deliver (bounded)
    renders_left   \* render calls the audio thread will still make (bounded)

vars == <<prog, pc, exit_status, printed, quit, instr, colorblind, mute, key,
          my_wavedata, dev, font, cb_pc, loc, dest, cont, calls, period,
          hist, events_left, renders_left>>

(***************************************************************************)
(* Bounds of the exploration.                                              *)
(***************************************************************************)
\* Spec: a long session at the keyboard, little sound.
MaxEvents == 8
MaxRenders == 1
\* SpecAudio: a short session at the keyboard, more sound.
MaxAudioEvents == 3
MaxAudioRenders == 3
\* SpecLive: a short session under fair scheduling.
MaxLiveEvents == 2
MaxLiveRenders == 1
\* SpecToggle: a short session with the history of the toggles kept.
MaxToggleEvents == 3
MaxToggleRenders == 1

(***************************************************************************)
(* Program constants.                                                      *)
(***************************************************************************)
HzUnits == 200
SampleRate == 48000
TAU == SampleRate * HzUnits

InstrUnits == 2
PIANO == 4
GUITAR == 1

\* The two tables, indexed from 0 as in C.
pitches ==
    [i \in 0..7 |-> <<52326, 58732, 65926, 69846, 78400, 88000, 98776, 104650>>[i + 1]]
pitchNames ==
    [i \in 0..7 |-> <<"C4", "D4", "E4", "F4", "G4", "A4", "B4", "C5">>[i + 1]]

AmpMax == 2000000000
AmpStep == 33333333

SizeofShort == 2
SizeofFloat == 4
WantSamples == 800

\* A local that has not been assigned: it has no value to read.
Uninit == [uninit |-> TRUE]
NoKey == "unassigned"

Keys == {"SDLK_ESCAPE", "SDLK_q", "SDLK_UP", "SDLK_DOWN", "SDLK_BACKSPACE",
         "SDLK_i", "SDLK_m", "SDLK_a"}

\* The byte lengths SDL hands to the callback: a whole buffer, or nothing.
GameLens == {0, WantSamples * SizeofShort}
SdltestLens == {0, WantSamples * SizeofFloat}

ProbeIdx == {0, 1}

NoLocals == [size |-> 0, c_pitch |-> 0, c_phase |-> 0,
             m_pitch |-> 0, m_phase |-> 0, m_amplitude |-> 0]
NoCont == [valid |-> FALSE]
\* The history of the toggles: not kept, or as it is when main is entered.
HistOff == [on |-> FALSE]
HistOn ==
    [on |-> TRUE,
     flags |-> [instr |-> PIANO, colorblind |-> 0, mute |-> 0],
     m_keys |-> 0, end_dev |-> "none", prev_dev |-> "none"]
Unwritten == [i \in ProbeIdx |-> [written |-> FALSE]]

(***************************************************************************)
(* C library and SDL operations.                                           *)
(***************************************************************************)
\* fmod(x, y) for y > 0: the result has the sign of x.
FmodNoWrap(x, y) == x
Fmod(x, y) == IF x >= 0 THEN x % y ELSE -((-x) % y)

\* The value sin(m_amplitude * sin(m_angle) + c_angle) as a term: sin has
\* period 2*pi, so the two angles are kept modulo TAU.
Sine(m_amplitude, m_angle, c_angle) ==
    [a |-> m_amplitude, m |-> m_angle % TAU, c |-> c_angle % TAU]

\* Two terms certainly denote the same number: same angles, and the same
\* modulation depth unless sin(m) = 0 makes the depth irrelevant.
SameValue(s, t) ==
    /\ s.c = t.c
    /\ s.m = t.m
    /\ s.a = t.a \/ s.m \in {0, TAU \div 2}

Opened(d) == d \in {"paused", "playing"}

\* SDL_PauseAudioDevice(dev, pause_on): nothing on an invalid device id.
SDL_PauseAudioDeviceIgnore(d, pause_on) == IF Opened(d) THEN "playing" ELSE d
SDL_PauseAudioDevice(d, pause_on) ==
    IF Opened(d) THEN (IF pause_on # 0 THEN "paused" ELSE "playing") ELSE d

\* SDL_CloseAudioDevice(dev)
SDL_CloseAudioDeviceLeak(d) == d
SDL_CloseAudioDevice(d) == IF Opened(d) THEN "closed" ELSE d

\* SDL takes the device lock in SDL_PauseAudioDevice and SDL_CloseAudioDevice
\* and holds it around every callback: both wait for a running callback.
DeviceLockFree == cb_pc = "idle"

(***************************************************************************)
(* theremingame.c                                                          *)
(***************************************************************************)
\* updateWavedata(userdata, newPitch)
updateWavedataResetPhase(userdata, newPitch) ==
    [userdata EXCEPT !.pitchindex = newPitch, !.carrier_phase = 0]
updateWavedata(userdata, newPitch) ==
    [userdata EXCEPT !.pitchindex = newPitch]

\* checkKey(key, wavedata_ptr) on the globals g = [quit, instr, colorblind,
\* mute] and the struct w; the result is the new [g, w].
checkKeyOffByOne(k, g, w) ==
    LET pitchindex == w.pitchindex IN
    IF k = "SDLK_ESCAPE" \/ k = "SDLK_q" THEN
        [g |-> [g EXCEPT !.quit = 1], w |-> w]
    ELSE IF k = "SDLK_UP" /\ pitchindex <= 7 THEN
        [g |-> g, w |-> updateWavedata(w, pitchindex + 1)]
    ELSE IF k = "SDLK_DOWN" /\ pitchindex >= 0 THEN
        [g |-> g, w |-> updateWavedata(w, pitchindex - 1)]
    ELSE IF k = "SDLK_BACKSPACE" THEN
        [g |-> [g EXCEPT !.colorblind = (g.colorblind + 1) % 2], w |-> w]
    ELSE IF k = "SDLK_i" THEN
        [g |-> [g EXCEPT !.instr = IF g.instr = PIANO THEN GUITAR ELSE PIANO],
         w |-> updateWavedata(w, pitchindex)]
    ELSE IF k = "SDLK_m" THEN
        [g |-> [g EXCEPT !.mute = (g.mute + 1) % 2], w |-> w]
    ELSE [g |-> g, w |-> w]

checkKeyWrap(k, g, w) ==
    LET pitchindex == w.pitchindex IN
    IF k = "SDLK_ESCAPE" \/ k = "SDLK_q" THEN
        [g |-> [g EXCEPT !.quit = 1], w |-> w]
    ELSE IF k = "SDLK_UP" THEN
        [g |-> g, w |-> updateWavedata(w, (pitchindex + 1) % 8)]
    ELSE IF k = "SDLK_DOWN" THEN
        [g |-> g, w |-> updateWavedata(w, (pitchindex + 7) % 8)]
    ELSE IF k = "SDLK_BACKSPACE" THEN
        [g |-> [g EXCEPT !.colorblind = (g.colorblind + 1) % 2], w |-> w]
    ELSE IF k = "SDLK_i" THEN
        [g |-> [g EXCEPT !.instr = IF g.instr = PIANO THEN GUITAR ELSE PIANO],
         w |-> updateWavedata(w, pitchindex)]
    ELSE IF k = "SDLK_m" THEN
        [g |-> [g EXCEPT !.mute = (g.mute + 1) % 2], w |-> w]
    ELSE [g |-> g, w |-> w]

checkKeyMuteSet(k, g, w) ==
    LET pitchindex == w.pitchindex IN
    IF k = "SDLK_ESCAPE" \/ k = "SDLK_q" THEN
        [g |-> [g EXCEPT !.quit = 1], w |-> w]
    ELSE IF k = "SDLK_UP" /\ pitchindex < 7 THEN
        [g |-> g, w |-> updateWavedata(w, pitchindex + 1)]
    ELSE IF k = "SDLK_DOWN" /\ pitchindex > 0 THEN
        [g |-> g, w |-> updateWavedata(w, pitchindex - 1)]
    ELSE IF k = "SDLK_BACKSPACE" THEN
        [g |-> [g EXCEPT !.colorblind = (g.colorblind + 1) % 2], w |-> w]
    ELSE IF k = "SDLK_i" THEN
        [g |-> [g EXCEPT !.instr = IF g.instr = PIANO THEN GUITAR ELSE PIANO],
         w |-> updateWavedata(w, pitchindex)]
    ELSE IF k = "SDLK_m" THEN
        [g |-> [g EXCEPT !.mute = 1], w |-> w]
    ELSE [g |-> g, w |-> w]

checkKeyInstrResetsPitch(k, g, w) ==
    LET pitchindex == w.pitchindex IN
    IF k = "SDLK_ESCAPE" \/ k = "SDLK_q" THEN
        [g |-> [g EXCEPT !.quit = 1], w |-> w]
    ELSE IF k = "SDLK_UP" /\ pitchindex < 7 THEN
        [g |-> g, w |-> updateWavedata(w, pitchindex + 1)]
    ELSE IF k = "SDLK_DOWN" /\ pitchindex > 0 THEN
        [g |-> g, w |-> updateWavedata(w, pitchindex - 1)]
    ELSE IF k = "SDLK_BACKSPACE" THEN
        [g |-> [g EXCEPT !.colorblind = (g.colorblind + 1) % 2], w |-> w]
    ELSE IF k = "SDLK_i" THEN
        [g |-> [g EXCEPT !.instr = IF g.instr = PIANO THEN GUITAR ELSE PIANO],
         w |-> updateWavedata(w, 0)]
    ELSE IF k = "SDLK_m" THEN
        [g |-> [g EXCEPT !.mute = (g.mute + 1) % 2], w |-> w]
    ELSE [g |-> g, w |-> w]

checkKeyQuitToggle(k, g, w) ==
    LET pitchindex == w.pitchindex IN
    IF k = "SDLK_ESCAPE" \/ k = "SDLK_q" THEN
        [g |-> [g EXCEPT !.quit = (g.quit + 1) % 2], w |-> w]
    ELSE IF k = "SDLK_UP" /\ pitchindex < 7 THEN
        [g |-> g, w |-> updateWavedata(w, pitchindex + 1)]
    ELSE IF k = "SDLK_DOWN" /\ pitchindex > 0 THEN
        [g |-> g, w |-> updateWavedata(w, pitchindex - 1)]
    ELSE IF k = "SDLK_BACKSPACE" THEN
        [g |-> [g EXCEPT !.colorblind = (g.colorblind + 1) % 2], w |-> w]
    ELSE IF k = "SDLK_i" THEN
        [g |-> [g EXCEPT !.instr = IF g.instr = PIANO THEN GUITAR ELSE PIANO],
         w |-> updateWavedata(w, pitchindex)]
    ELSE IF k = "SDLK_m" THEN
        [g |-> [g EXCEPT !.mute = (g.mute + 1) % 2], w |-> w]
    ELSE [g |-> g, w |-> w]

checkKey(k, g, w) ==
    LET pitchindex == w.pitchindex IN
    IF k = "SDLK_ESCAPE" \/ k = "SDLK_q" THEN
        [g |-> [g EXCEPT !.quit = 1], w |-> w]
    ELSE IF k = "SDLK_UP" /\ pitchindex < 7 THEN
        [g |-> g, w |-> updateWavedata(w, pitchindex + 1)]
    ELSE IF k = "SDLK_DOWN" /\ pitchindex > 0 THEN
        [g |-> g, w |-> updateWavedata(w, pitchindex - 1)]
    ELSE IF k = "SDLK_BACKSPACE" THEN
        [g |-> [g EXCEPT !.colorblind = (g.colorblind + 1) % 2], w |-> w]
    ELSE IF k = "SDLK_i" THEN
        [g |-> [g EXCEPT !.instr = IF g.instr = PIANO THEN GUITAR ELSE PIANO],
         w |-> updateWavedata(w, pitchindex)]
    ELSE IF k = "SDLK_m" THEN
        [g |-> [g EXCEPT !.mute = (g.mute + 1) % 2], w |-> w]
    ELSE [g |-> g, w |-> w]

Globals == [quit |-> quit, instr |-> instr, colorblind |-> colorblind, mute |-> mute]

\* createWant(wantpoint, userdata): the struct it leaves behind.
createWant ==
    [carrier_phase |-> 0, modulator_phase |-> 0, modulator_amplitude |-> AmpMax,
     pitchindex |-> 0, modulator_pitch |-> (instr * 440 * HzUnits) \div InstrUnits]

\* dest[i] of the fill loop, from the locals l.
WaveSample(l, i) ==
    Sine(l.m_amplitude, l.m_pitch * i + l.m_phase, l.c_pitch * i + l.c_phase)

\* generateWaveform, line 98: m_pitch = instr*c_pitch.
ModulatorPitchStored(c_pitch) == my_wavedata.modulator_pitch
ModulatorPitch(c_pitch) == (instr * c_pitch) \div InstrUnits

\* The two phase updates at the end of generateWaveform, from the locals.
CarrierPhaseReread ==
    IF prog = "game"
        THEN Fmod(pitches[my_wavedata.pitchindex] * loc.size + loc.c_phase, TAU)
        ELSE Fmod(my_wavedata.carrier_pitch * loc.size + loc.c_phase, TAU)
CarrierPhaseStale == Fmod(loc.c_phase, TAU)
CarrierPhaseUpdate == Fmod(loc.c_pitch * loc.size + loc.c_phase, TAU)
ModulatorPhaseCarrier == Fmod(loc.c_pitch * loc.size + loc.m_phase, TAU)
ModulatorPhaseUpdate == Fmod(loc.m_pitch * loc.size + loc.m_phase, TAU)

\* History: the sample the fill loop would have written at index size had the
\* buffer been twice as long, with the pitches of this call.
Continuation ==
    [valid |-> TRUE, size |-> loc.size, c_pitch |-> loc.c_pitch,
     m_pitch |-> loc.m_pitch, s |-> WaveSample(loc, loc.size)]

\* Groups of variables, for the frame conditions.
globals == <<quit, instr, colorblind, mute>>
callback == <<cb_pc, loc, dest, cont, calls, period>>
budget == <<events_left, renders_left>>
\* Set once (prog) or by few actions only (key, hist).
rest == <<prog, key, hist>>

\* History: the flags as they are before a key is handled, the m keys handled
\* in the frame, and the device as the last two frame ends left it.
Flags == [instr |-> instr, colorblind |-> colorblind, mute |-> mute]
HistKey(k) ==
    IF hist.on
        THEN [hist EXCEPT !.flags = Flags,
                          !.m_keys = IF k = "SDLK_m" THEN @ + 1 ELSE @]
        ELSE hist
HistFrameStart == IF hist.on THEN [hist EXCEPT !.m_keys = 0] ELSE hist
HistFrameEnd(d) ==
    IF hist.on THEN [hist EXCEPT !.end_dev = d, !.prev_dev = hist.end_dev] ELSE hist

\* main: SDL_Init and TTF_Init, atexit.
game_Init ==
    /\ prog = "game" /\ pc = "init"
    /\ \E ok \in BOOLEAN :
        IF ok THEN pc' = "createWant" /\ exit_status' = exit_status
              ELSE pc' = "returned" /\ exit_status' = 1
    /\ UNCHANGED <<rest, printed, globals, my_wavedata, dev, font, callback, budget>>

\* main: createWant(&want, &my_wavedata).
game_CreateWant ==
    /\ prog = "game" /\ pc = "createWant"
    /\ my_wavedata' = createWant
    /\ pc' = "openAudio"
    /\ UNCHANGED <<rest, exit_status, printed, globals, dev, font, callback, budget>>

\* main: SDL_OpenAudioDevice (a device opens paused), the error message;
\* the window and the renderer.
game_OpenAudioUnpaused ==
    /\ prog = "game" /\ pc = "openAudio"
    /\ \E ok \in BOOLEAN :
        IF ok THEN dev' = "playing" /\ printed' = printed
              ELSE dev' = "failed" /\ printed' = printed \cup {"Error opening audio device"}
    /\ pc' = "openFont"
    /\ UNCHANGED <<rest, exit_status, globals, my_wavedata, font, callback, budget>>
game_OpenAudio ==
    /\ prog = "game" /\ pc = "openAudio"
    /\ \E ok \in BOOLEAN :
        IF ok THEN dev' = "paused" /\ printed' = printed
              ELSE dev' = "failed" /\ printed' = printed \cup {"Error opening audio device"}
    /\ pc' = "openFont"
    /\ UNCHANGED <<rest, exit_status, globals, my_wavedata, font, callback, budget>>

\* main: TTF_OpenFont.
game_OpenFontContinue ==
    /\ prog = "game" /\ pc = "openFont"
    /\ \E ok \in BOOLEAN :
        IF ok THEN font' = "open" /\ printed' = printed
              ELSE font' = "failed" /\ printed' = printed \cup {"Font not found"}
    /\ pc' = "loop"
    /\ UNCHANGED <<rest, exit_status, globals, my_wavedata, dev, callback, budget>>
game_OpenFont ==
    /\ prog = "game" /\ pc = "openFont"
    /\ \E ok \in BOOLEAN :
        IF ok THEN /\ font' = "open" /\ pc' = "loop"
                   /\ UNCHANGED <<printed, exit_status>>
              ELSE /\ printed' = printed \cup {"Font not found"}
                   /\ exit_status' = 1 /\ pc' = "returned"
                   /\ font' = "failed"
    /\ UNCHANGED <<rest, globals, my_wavedata, dev, callback, budget>>

\* main: while (!quit)
game_LoopTest ==
    /\ prog = "game" /\ pc = "loop"
    /\ pc' = IF quit # 0 THEN "cleanup" ELSE "poll"
    /\ hist' = HistFrameStart
    /\ UNCHANGED <<prog, key, exit_status, printed, globals, my_wavedata, dev, font,
                   callback, budget>>

\* main: SDL_PollEvent returned the SDL_KEYDOWN of key k: checkKey(key, &my_wavedata).
game_KeyDownOf(k) ==
    /\ prog = "game" /\ pc = "poll" /\ events_left > 0
    /\ LET r == checkKey(k, Globals, my_wavedata) IN
        /\ quit' = r.g.quit
        /\ instr' = r.g.instr
        /\ colorblind' = r.g.colorblind
        /\ mute' = r.g.mute
        /\ my_wavedata' = r.w
    /\ key' = k
    /\ hist' = HistKey(k)
    /\ events_left' = events_left - 1
    /\ UNCHANGED <<prog, pc, exit_status, printed, dev, font, callback, renders_left>>

game_KeyDown == \E k \in Keys : game_KeyDownOf(k)

\* main: SDL_PollEvent returned SDL_QUIT.
game_QuitEvent ==
    /\ prog = "game" /\ pc = "poll" /\ events_left > 0
    /\ quit' = 1
    /\ events_left' = events_left - 1
    /\ UNCHANGED <<rest, pc, exit_status, printed, instr, colorblind, mute,
                   my_wavedata, dev, font, callback, renders_left>>

\* main: SDL_PollEvent returned an event of another type.
game_OtherEvent ==
    /\ prog = "game" /\ pc = "poll" /\ events_left > 0
    /\ events_left' = events_left - 1
    /\ UNCHANGED <<rest, pc, exit_status, printed, globals, my_wavedata, dev, font,
                   callback, renders_left>>

\* main: SDL_PollEvent returned 0: the frame is drawn (the display looks up
\* pitchNames[pitchindex]) and SDL_PauseAudioDevice(dev, mute) ends the frame.
game_FrameEnd ==
    /\ prog = "game" /\ pc = "poll"
    /\ DeviceLockFree
    /\ dev' = SDL_PauseAudioDevice(dev, mute)
    /\ hist' = HistFrameEnd(dev')
    /\ pc' = "loop"
    /\ UNCHANGED <<prog, key, exit_status, printed, globals, my_wavedata, font,
                   callback, budget>>

\* main: TTF_CloseFont, SDL_CloseAudioDevice, SDL_Quit, return 0.
game_Cleanup ==
    /\ prog = "game" /\ pc = "cleanup"
    /\ DeviceLockFree
    /\ font' = "closed"
    /\ dev' = SDL_CloseAudioDevice(dev)
    /\ exit_status' = 0
    /\ pc' = "returned"
    /\ UNCHANGED <<rest, printed, globals, my_wavedata, callback, budget>>

\* The audio thread calls the callback while the device plays.
CallbackMayRun == dev = "playing"

\* generateWaveform, lines 91-97: size, c_pitch = pitches[pitchindex], c_phase.
game_CbEnter ==
    /\ prog = "game" /\ cb_pc = "idle" /\ CallbackMayRun /\ renders_left > 0
    /\ \E len \in GameLens :
        loc' = [NoLocals EXCEPT !.size = len \div SizeofShort,
                                !.c_pitch = pitches[my_wavedata.pitchindex],
                                !.c_phase = my_wavedata.carrier_phase]
    /\ cb_pc' = "readInstr"
    /\ renders_left' = renders_left - 1
    /\ UNCHANGED <<rest, pc, exit_status, printed, globals, my_wavedata, dev, font,
                   dest, cont, calls, period, events_left>>

\* generateWaveform, lines 98-100: m_pitch = instr*c_pitch, m_phase, m_amplitude.
game_CbReadInstr ==
    /\ prog = "game" /\ cb_pc = "readInstr"
    /\ loc' = [loc EXCEPT !.m_pitch = ModulatorPitch(loc.c_pitch),
                          !.m_phase = my_wavedata.modulator_phase,
                          !.m_amplitude = my_wavedata.modulator_amplitude]
    /\ cb_pc' = "fill"
    /\ UNCHANGED <<rest, pc, exit_status, printed, globals, my_wavedata, dev, font,
                   dest, cont, calls, period, budget>>

\* generateWaveform, lines 102-108: the fill loop.
game_CbFill ==
    /\ prog = "game" /\ cb_pc = "fill"
    /\ dest' = [i \in ProbeIdx |-> IF i < loc.size THEN WaveSample(loc, i) ELSE dest[i]]
    /\ cb_pc' = "update"
    /\ UNCHANGED <<rest, pc, exit_status, printed, globals, my_wavedata, dev, font,
                   loc, cont, calls, period, budget>>

\* generateWaveform, lines 110-123: the phases are stored; the call returns
\* and SDL takes the buffer.
game_CbUpdate ==
    /\ prog = "game" /\ cb_pc = "update"
    /\ my_wavedata' = [my_wavedata EXCEPT !.carrier_phase = CarrierPhaseUpdate,
                                          !.modulator_phase = ModulatorPhaseUpdate]
    /\ cont' = Continuation
    /\ cb_pc' = "idle"
    /\ loc' = NoLocals
    /\ dest' = Unwritten
    /\ UNCHANGED <<rest, pc, exit_status, printed, globals, dev, font, calls, period,
                   budget>>

game_Next ==
    \/ game_Init \/ game_CreateWant \/ game_OpenAudio \/ game_OpenFont
    \/ game_LoopTest \/ game_KeyDown \/ game_QuitEvent \/ game_OtherEvent
    \/ game_FrameEnd \/ game_Cleanup
    \/ game_CbEnter \/ game_CbReadInstr \/ game_CbFill \/ game_CbUpdate

(***************************************************************************)
(* sdltest.c                                                               *)
(***************************************************************************)
\* main, lines 104-109: the struct handed to the callback.
sdltest_wavedata ==
    [carrier_phase |-> 0, modulator_phase |-> 0, modulator_amplitude |-> AmpMax,
     carrier_pitch |-> 1000 * HzUnits, modulator_pitch |-> 500 * HzUnits]

\* generateWaveform, lines 69-70: the envelope of the modulation depth, from
\* the depth read at the start of the call.
EnvelopeClamped(modulator_amplitude) ==
    IF modulator_amplitude - AmpStep > 0 THEN modulator_amplitude - AmpStep ELSE AmpMax
Envelope(modulator_amplitude) ==
    IF modulator_amplitude > 0 THEN modulator_amplitude - AmpStep ELSE AmpMax

\* main: SDL_Init, atexit.
sdltest_Init ==
    /\ prog = "sdltest" /\ pc = "init"
    /\ \E ok \in BOOLEAN :
        IF ok THEN pc' = "setup" /\ exit_status' = exit_status
              ELSE pc' = "returned" /\ exit_status' = 1
    /\ UNCHANGED <<rest, printed, globals, my_wavedata, dev, font, callback, budget>>

\* main, lines 95-110: the audio settings and the wavedata.
sdltest_Setup ==
    /\ prog = "sdltest" /\ pc = "setup"
    /\ my_wavedata' = sdltest_wavedata
    /\ pc' = "openAudio"
    /\ UNCHANGED <<rest, exit_status, printed, globals, dev, font, callback, budget>>

\* main, lines 113-137: SDL_OpenAudioDevice, the error message,
\* SDL_PauseAudioDevice(dev, 0); the window is drawn.
sdltest_OpenAudio ==
    /\ prog = "sdltest" /\ pc = "openAudio"
    /\ \E ok \in BOOLEAN :
        IF ok THEN dev' = SDL_PauseAudioDevice("paused", 0) /\ printed' = printed
              ELSE /\ dev' = SDL_PauseAudioDevice("failed", 0)
                   /\ printed' = printed \cup {"Error opening audio device"}
    /\ pc' = "wait"
    /\ UNCHANGED <<rest, exit_status, globals, my_wavedata, font, callback, budget>>

\* main, lines 139-144: the loop ends at the first SDL_KEYDOWN.
sdltest_KeyDown ==
    /\ prog = "sdltest" /\ pc = "wait"
    /\ pc' = "cleanup"
    /\ UNCHANGED <<rest, exit_status, printed, globals, my_wavedata, dev, font,
                   callback, budget>>

\* main, lines 146-150: SDL_CloseAudioDevice, SDL_Quit, return 0.
sdltest_Cleanup ==
    /\ prog = "sdltest" /\ pc = "cleanup"
    /\ DeviceLockFree
    /\ dev' = SDL_CloseAudioDevice(dev)
    /\ exit_status' = 0
    /\ pc' = "returned"
    /\ UNCHANGED <<rest, printed, globals, my_wavedata, font, callback, budget>>

\* generateWaveform, lines 27-50: the locals are read and the buffer filled.
sdltest_CbFill ==
    /\ prog = "sdltest" /\ cb_pc = "idle" /\ CallbackMayRun
    /\ \E len \in SdltestLens :
        LET l == [size |-> len \div SizeofFloat,
                  c_pitch |-> my_wavedata.carrier_pitch,
                  c_phase |-> my_wavedata.carrier_phase,
                  m_pitch |-> my_wavedata.modulator_pitch,
                  m_phase |-> my_wavedata.modulator_phase,
                  m_amplitude |-> my_wavedata.modulator_amplitude] IN
        /\ loc' = l
        /\ dest' = [i \in ProbeIdx |-> IF i < l.size THEN WaveSample(l, i) ELSE dest[i]]
    /\ cb_pc' = "update"
    /\ UNCHANGED <<rest, pc, exit_status, printed, globals, my_wavedata, dev, font,
                   cont, calls, period, budget>>

\* generateWaveform, lines 52-71: the phases and the envelope are stored; the
\* call returns and SDL takes the buffer.
sdltest_CbUpdate ==
    /\ prog = "sdltest" /\ cb_pc = "update"
    /\ my_wavedata' =
         [my_wavedata EXCEPT !.carrier_phase = CarrierPhaseUpdate,
                             !.modulator_phase = ModulatorPhaseUpdate,
                             !.modulator_amplitude = Envelope(loc.m_amplitude)]
    /\ cont' = Continuation
    /\ IF Envelope(loc.m_amplitude) = AmpMax
         THEN calls' = 0 /\ period' = calls + 1
         ELSE calls' = calls + 1 /\ period' = period
    /\ cb_pc' = "idle"
    /\ loc' = NoLocals
    /\ dest' = Unwritten
    /\ UNCHANGED <<rest, pc, exit_status, printed, globals, dev, font, budget>>

sdltest_Next ==
    \/ sdltest_Init \/ sdltest_Setup \/ sdltest_OpenAudio \/ sdltest_KeyDown
    \/ sdltest_Cleanup \/ sdltest_CbFill \/ sdltest_CbUpdate

(***************************************************************************)
(* The specifications.                                                     *)
(***************************************************************************)
\* The state when main is entered, for a session of at most e events and r
\* render calls of the game, with the history h.
InitHist(e, r, h) ==
    /\ prog \in {"game", "sdltest"}
    /\ pc = "init"
    /\ exit_status = -1
    /\ printed = {}
    /\ quit = 0
    /\ instr = PIANO
    /\ colorblind = 0
    /\ mute = 0
    /\ key = NoKey
    /\ my_wavedata = Uninit
    /\ dev = "unopened"
    /\ font = "unopened"
    /\ cb_pc = "idle"
    /\ loc = NoLocals
    /\ dest = Unwritten
    /\ cont = NoCont
    /\ calls = 0
    /\ period = 0
    /\ hist = h
    /\ events_left = e
    /\ renders_left = r

InitWith(e, r) == InitHist(e, r, HistOff)
Init == InitWith(MaxEvents, MaxRenders)
InitAudio == InitWith(MaxAudioEvents, MaxAudioRenders)

Next == game_Next \/ sdltest_Next

Spec == Init /\ [][Next]_vars
SpecAudio == InitAudio /\ [][Next]_vars
InitToggle == InitHist(MaxToggleEvents, MaxToggleRenders, HistOn)
SpecToggle == InitToggle /\ [][Next]_vars

\* Scheduling: the main thread goes on when it can (the loop test, the end of
\* a frame once SDL_PollEvent has returned 0 and the device lock is free, the
\* cleanup), and a callback that has started runs to its end.
InitLive == InitWith(MaxLiveEvents, MaxLiveRenders)
Fairness ==
    /\ WF_vars(game_LoopTest) /\ WF_vars(game_FrameEnd) /\ WF_vars(game_Cleanup)
    /\ WF_vars(game_CbReadInstr) /\ WF_vars(game_CbFill) /\ WF_vars(game_CbUpdate)
    /\ WF_vars(sdltest_CbUpdate) /\ WF_vars(sdltest_Cleanup)
SpecLive == InitLive /\ [][Next]_vars /\ Fairness

(***************************************************************************)
(* Properties.                                                             *)
(***************************************************************************)
Initialised == "carrier_phase" \in DOMAIN my_wavedata
Phases(w) == <<w.carrier_phase, w.modulator_phase, w.modulator_amplitude>>
\* A step of the audio thread moves cb_pc; a step of the main thread does not.
RenderStep == cb_pc' # cb_pc

\* C1: in the game, from createWant on, pitchindex is an index of the pitches
\* and pitchNames tables (0 <= pitchindex < 8), whatever keys were handled and
\* whatever the callback did, so every lookup in the tables is in bounds.
C1_PitchIndexInBounds ==
    prog = "game" /\ Initialised =>
        /\ 0 <= my_wavedata.pitchindex /\ my_wavedata.pitchindex < 8
        /\ my_wavedata.pitchindex \in DOMAIN pitches
        /\ my_wavedata.pitchindex \in DOMAIN pitchNames

\* The callback has looked up pitches[7] and the last key handled was Up.
C1_Witness ==
    /\ prog = "game" /\ Initialised
    /\ my_wavedata.pitchindex = 7 /\ key = "SDLK_UP"
    /\ cb_pc = "readInstr" /\ loc.c_pitch = pitches[7]

\* C2: handling Up at index 7 and handling Down at index 0 leave pitchindex
\* unchanged; at any other index Up adds exactly 1 and Down subtracts exactly
\* 1 (no wraparound).
C2_PitchClamp ==
    [][/\ game_KeyDownOf("SDLK_UP") =>
            my_wavedata'.pitchindex =
                IF my_wavedata.pitchindex = 7 THEN 7 ELSE my_wavedata.pitchindex + 1
       /\ game_KeyDownOf("SDLK_DOWN") =>
            my_wavedata'.pitchindex =
                IF my_wavedata.pitchindex = 0 THEN 0 ELSE my_wavedata.pitchindex - 1
      ]_vars

\* Up was the last of eight keys handled and the index is at the top: the
\* eighth Up found the index at 7.
C2_Witness ==
    /\ prog = "game" /\ Initialised
    /\ key = "SDLK_UP" /\ my_wavedata.pitchindex = 7
    /\ events_left = MaxEvents - 8

\* The buffer just filled and the previous one were rendered with the same
\* pitches and the same length.
SameTone ==
    /\ cb_pc = "update" /\ cont.valid /\ loc.size > 0
    /\ cont.size = loc.size /\ cont.c_pitch = loc.c_pitch /\ cont.m_pitch = loc.m_pitch

\* C3 as stated: with constant pitch and instrument, the sample at index 0 of
\* buffer k+1 equals the sample at index S of a buffer of length 2S rendered
\* from the state at the start of buffer k.
C3_SampleContinuity == SameTone => SameValue(dest[0], cont.s)

\* C3 amended: with constant pitch and instrument the carrier and modulator
\* angles of the sample at index 0 of buffer k+1 equal those at index S of the
\* buffer of length 2S; the sample values are equal when modulator_amplitude
\* is the same in both calls, as it always is in theremingame.c.
C3_PhaseContinuity ==
    SameTone =>
        /\ dest[0].c = cont.s.c
        /\ dest[0].m = cont.s.m
        /\ dest[0].a = cont.s.a => SameValue(dest[0], cont.s)
        /\ prog = "game" => SameValue(dest[0], cont.s)

\* The game has filled a second buffer with the tone of the first, and the
\* phases are not at 0.
C3_Witness ==
    /\ prog = "game" /\ SameTone
    /\ dest[0].c # 0 /\ dest[0].m # 0

\* The per-sample phase steps of the buffer just filled.
CarrierStep == (dest[1].c - dest[0].c + TAU) % TAU
ModulatorStep == (dest[1].m - dest[0].m + TAU) % TAU

\* C4: the phases stored at the end of a render call advance by S times the
\* per-sample phase step of the buffer just filled, also when checkKey changed
\* pitchindex or instr while the callback was running.
C4_PhaseFromRenderedPitch ==
    [][cb_pc = "update" /\ cb_pc' = "idle" /\ loc.size > 1 =>
        /\ my_wavedata'.carrier_phase =
             (my_wavedata.carrier_phase + loc.size * CarrierStep) % TAU
        /\ my_wavedata'.modulator_phase =
             (my_wavedata.modulator_phase + loc.size * ModulatorStep) % TAU
      ]_vars

\* The buffer is filled, the phases are not yet stored, and both the pitch
\* index and the instrument have changed since the callback read them.
C4_Witness ==
    /\ prog = "game" /\ cb_pc = "update" /\ loc.size > 1
    /\ loc.c_pitch # pitches[my_wavedata.pitchindex]
    /\ loc.m_pitch * InstrUnits # instr * loc.c_pitch

\* C5: from initialisation on, carrier_phase and modulator_phase are within
\* [0, 2*pi), also after the accumulated phase has passed 2*pi many times.
C5_PhaseWrapped ==
    Initialised =>
        /\ 0 <= my_wavedata.carrier_phase /\ my_wavedata.carrier_phase < TAU
        /\ 0 <= my_wavedata.modulator_phase /\ my_wavedata.modulator_phase < TAU

\* All render calls are made, the pitch and the instrument were changed, and
\* the phases have advanced (each buffer of 800 samples advances the carrier
\* by more than four turns).
C5_Witness ==
    /\ prog = "game" /\ Initialised /\ renders_left = 0 /\ cb_pc = "idle"
    /\ my_wavedata.pitchindex > 0 /\ instr = GUITAR
    /\ my_wavedata.carrier_phase > 0 /\ my_wavedata.modulator_phase > 0

C7_AmplitudeRange ==
    Initialised =>
        /\ 0 <= my_wavedata.modulator_amplitude
        /\ my_wavedata.modulator_amplitude <= AmpMax

\* C8: once the device is open, only the audio thread changes carrier_phase,
\* modulator_phase and modulator_amplitude, and the audio thread changes none
\* of pitchindex, instr, mute, colorblind and quit.
C8_FieldOwnership ==
    [][/\ RenderStep =>
            /\ UNCHANGED <<quit, instr, colorblind, mute>>
            /\ prog = "game" => my_wavedata'.pitchindex = my_wavedata.pitchindex
       /\ ~RenderStep /\ dev # "unopened" => Phases(my_wavedata') = Phases(my_wavedata)
      ]_vars

\* Both threads have written: the callback has stored phases, the main thread
\* has since changed the pitch index, the instrument and the mute flag.
C8_Witness ==
    /\ prog = "game" /\ Initialised
    /\ my_wavedata.carrier_phase > 0 /\ my_wavedata.modulator_phase > 0
    /\ my_wavedata.pitchindex > 0 /\ instr = GUITAR /\ mute = 1
    /\ cb_pc = "update"

\* C9: the pause at the end of a frame leaves the device paused exactly when
\* mute is set; while the device is paused the callback is not running and
\* the phases and modulator_amplitude do not change, so rendering resumes from
\* the values held when the device was paused.
C9_MuteAtDevice ==
    /\ [](dev = "paused" => cb_pc = "idle")
    /\ [][/\ prog = "game" /\ pc = "poll" /\ pc' = "loop" /\ Opened(dev) =>
               (dev' = "paused" <=> mute # 0)
          /\ dev = "paused" /\ Initialised => Phases(my_wavedata') = Phases(my_wavedata)
         ]_vars

\* The device is paused by the mute flag after the callback has advanced the
\* phases.
C9_Witness ==
    /\ prog = "game" /\ Initialised /\ dev = "paused" /\ mute = 1 /\ pc = "loop"
    /\ my_wavedata.carrier_phase > 0

\* C10: when SDL_OpenAudioDevice fails the failure is reported, the event
\* loop is not entered and main returns a nonzero status.
C10_OpenFailureFatal ==
    dev = "failed" =>
        /\ "Error opening audio device" \in printed
        /\ pc \notin {"loop", "poll", "cleanup", "wait"}
        /\ pc = "returned" => exit_status # 0

\* C11: on every path by which main returns, the device is not playing (it
\* was never opened, is still paused, or was closed by SDL_CloseAudioDevice),
\* no callback is running, and no callback runs afterwards.
C11_NoRenderAfterReturn ==
    /\ [](pc = "returned" =>
            /\ dev \in {"unopened", "failed", "paused", "closed"}
            /\ cb_pc = "idle"
            /\ ~CallbackMayRun)
    /\ [][pc = "returned" => ~RenderStep /\ my_wavedata' = my_wavedata]_vars

\* main has returned 0 through the cleanup after the callback had rendered
\* and while the device was playing.
C11_Witness ==
    /\ prog = "game" /\ pc = "returned" /\ exit_status = 0 /\ dev = "closed"
    /\ mute = 0 /\ my_wavedata.carrier_phase > 0

\* C12: once quit is set (Escape, q or the window-close event) no later
\* command clears it; the loop test that finds it set starts no further frame
\* but goes to the cleanup; and main eventually returns 0 with the font
\* closed and SDL_CloseAudioDevice called (the device is not open any more).
C12_QuitTerminates ==
    /\ [][quit # 0 => quit' # 0]_vars
    /\ [][prog = "game" /\ quit # 0 /\ pc = "loop" => pc' \in {"loop", "cleanup"}]_vars
    /\ (prog = "game" /\ quit # 0) ~>
           (pc = "returned" /\ exit_status = 0 /\ font = "closed" /\ ~Opened(dev))

\* Escape was the last key handled and main has returned 0 through the
\* cleanup, closing the font and the device.
C12_Witness ==
    /\ prog = "game" /\ quit = 1 /\ key = "SDLK_ESCAPE"
    /\ pc = "returned" /\ exit_status = 0 /\ font = "closed" /\ dev = "closed"

\* C13 as stated, on the stored value: no modulator pitch is kept in the
\* struct that differs from instr x pitches[pitchindex].
C13_NoStaleModulatorPitch ==
    prog = "game" /\ Initialised =>
        \/ "modulator_pitch" \notin DOMAIN my_wavedata
        \/ my_wavedata.modulator_pitch * InstrUnits
              = instr * pitches[my_wavedata.pitchindex]

\* C13 amended: instr is always PIANO or GUITAR; every render call takes
\* c_pitch = pitches[pitchindex] and m_pitch = instr x c_pitch from the values
\* read at its start and fills the buffer with that modulator pitch.  The
\* struct does keep a modulator_pitch, written once by createWant (instr x
\* 440) and never again, which generateWaveform does not read.
C13_ModulatorPitchFromInstr ==
    /\ [](prog = "game" => instr \in {PIANO, GUITAR})
    /\ [](prog = "game" /\ Initialised =>
            my_wavedata.modulator_pitch = (PIANO * 440 * HzUnits) \div InstrUnits)
    /\ [][prog = "game" =>
            /\ cb_pc = "idle" /\ cb_pc' = "readInstr" =>
                  loc'.c_pitch = pitches[my_wavedata.pitchindex]
            /\ cb_pc = "readInstr" /\ cb_pc' = "fill" =>
                  loc'.m_pitch * InstrUnits = instr * loc.c_pitch
            /\ cb_pc = "fill" /\ cb_pc' = "update" /\ loc.size > 1 =>
                  /\ (dest'[1].m - dest'[0].m + TAU) % TAU = loc.m_pitch
                  /\ loc.m_pitch * InstrUnits \in {PIANO * loc.c_pitch, GUITAR * loc.c_pitch}
         ]_vars

\* A buffer was filled with the guitar's modulator pitch at a raised note,
\* while the struct still holds the modulator pitch createWant stored.
C13_Witness ==
    /\ prog = "game" /\ cb_pc = "update" /\ loc.size > 1
    /\ loc.c_pitch = pitches[1] /\ loc.m_pitch * InstrUnits = GUITAR * loc.c_pitch
    /\ ModulatorStep = loc.m_pitch
    /\ my_wavedata.modulator_pitch # loc.m_pitch

\* C14: when TTF_OpenFont fails the failure is reported and main returns a
\* nonzero status at once: the event loop is never entered, no event was or
\* is handled, and nothing runs afterwards.
C14_FontFailureFatal ==
    /\ [](font = "failed" =>
            /\ "Font not found" \in printed
            /\ pc = "returned" /\ exit_status \notin {-1, 0}
            /\ key = NoKey /\ quit = 0 /\ instr = PIANO /\ colorblind = 0 /\ mute = 0
            /\ my_wavedata.pitchindex = 0
            /\ dev \in {"paused", "failed"} /\ cb_pc = "idle")
    /\ [][font # "failed"]_vars

\* The audio device had opened, the font did not: main has returned 1.
C14_Witness ==
    /\ prog = "game" /\ font = "failed" /\ dev = "paused"
    /\ pc = "returned" /\ exit_status = 1

\* C15: a render call with len = 0 writes no sample and leaves every field
\* of the struct (both phases, modulator_amplitude, the pitch) unchanged.
C15_ZeroLengthNoOp ==
    [][/\ cb_pc # "update" /\ cb_pc' = "update" /\ loc'.size = 0 => dest' = dest
       /\ cb_pc = "update" /\ cb_pc' = "idle" /\ loc.size = 0 =>
             my_wavedata' = my_wavedata
      ]_vars

\* C16: each render call of S samples stores each phase as (old phase +
\* 2*pi*pitch*S/48000) mod 2*pi, with the pitch the call rendered; from the
\* startup state (pitchindex 0, instr 2, phases 0, modulator_amplitude 0.4)
\* one call of 800 samples leaves carrier_phase = 2*pi * 0.3605 (261.63 *
\* 800/48000 = 4.3605 turns) and modulator_phase = 2*pi * 0.721 (523.26 *
\* 800/48000 = 8.721 turns).
C16_PhaseNumbers ==
    [][cb_pc = "update" /\ cb_pc' = "idle" =>
        /\ my_wavedata'.carrier_phase =
              (my_wavedata.carrier_phase + loc.c_pitch * loc.size) % TAU
        /\ my_wavedata'.modulator_phase =
              (my_wavedata.modulator_phase + loc.m_pitch * loc.size) % TAU
        /\ /\ prog = "game" /\ loc.size = 800
           /\ loc.c_pitch = pitches[0] /\ loc.m_pitch * InstrUnits = PIANO * pitches[0]
           /\ my_wavedata.carrier_phase = 0 /\ my_wavedata.modulator_phase = 0
           /\ my_wavedata.modulator_amplitude = AmpMax
           => /\ my_wavedata'.carrier_phase = 3605 * (TAU \div 10000)
              /\ my_wavedata'.modulator_phase = 7210 * (TAU \div 10000)
      ]_vars

\* The first render call of the game, made from the startup state with a
\* whole buffer, has returned.
C16_Witness ==
    /\ prog = "game" /\ cb_pc = "idle" /\ renders_left = MaxAudioRenders - 1
    /\ my_wavedata.pitchindex = 0 /\ instr = PIANO
    /\ my_wavedata.carrier_phase = 3605 * (TAU \div 10000)
    /\ my_wavedata.modulator_phase = 7210 * (TAU \div 10000)

\* C17: in the game createWant has set pitchindex = 0, both phases = 0 and
\* modulator_amplitude = 0.4, with instr = PIANO, before the device is
\* opened; the device starts to play only in the SDL_PauseAudioDevice call
\* that ends a frame, with mute = 0; and the callback runs only on a playing
\* device, so it reads an initialised struct.
C17_InitialisedBeforeRender ==
    /\ [](prog = "game" /\ pc = "openAudio" =>
            /\ dev = "unopened" /\ instr = PIANO
            /\ my_wavedata.pitchindex = 0
            /\ my_wavedata.carrier_phase = 0 /\ my_wavedata.modulator_phase = 0
            /\ my_wavedata.modulator_amplitude = AmpMax)
    /\ [](prog = "game" /\ dev # "unopened" => Initialised)
    /\ [](prog = "game" /\ cb_pc # "idle" => Initialised /\ dev = "playing")
    /\ [][prog = "game" =>
            /\ dev # "playing" /\ dev' = "playing" =>
                  pc = "poll" /\ pc' = "loop" /\ mute = 0
            /\ cb_pc = "idle" /\ RenderStep => Initialised /\ dev = "playing"
         ]_vars

\* The first render call of the game is under way; the mute flag has been
\* set since the frame ended that started the device.
C17_Witness ==
    /\ prog = "game" /\ Initialised /\ cb_pc = "readInstr"
    /\ renders_left = MaxAudioRenders - 1
    /\ dev = "playing" /\ mute = 1

\* The ones of quit, pitchindex, colorblind, instr and mute that a step changes.
Changed ==
    {v \in {"quit", "pitchindex", "colorblind", "instr", "mute"} :
        CASE v = "quit" -> quit' # quit
          [] v = "pitchindex" -> my_wavedata'.pitchindex # my_wavedata.pitchindex
          [] v = "colorblind" -> colorblind' # colorblind
          [] v = "instr" -> instr' # instr
          [] v = "mute" -> mute' # mute}

\* C18: handling one key changes at most one of quit, pitchindex, colorblind,
\* instr and mute: Up/Down only pitchindex, i only instr, m only mute,
\* Backspace only colorblind, q/Escape only quit; Up at index 7, Down at
\* index 0 and an unmapped key change none; the phases, modulator_amplitude
\* and the stored modulator_pitch are never changed by a key.
\* (A step that takes an event and assigns key a new value is checkKey's; one
\* that leaves key as it was is compared with checkKey of that key.)
C18_KeyFrameEffect ==
    [][events_left' # events_left =>
        LET k == key'
            changed == Changed
        IN  (key' # key \/ game_KeyDownOf(k)) =>
              /\ Cardinality(changed) <= 1
              /\ Phases(my_wavedata') = Phases(my_wavedata)
              /\ my_wavedata'.modulator_pitch = my_wavedata.modulator_pitch
              /\ changed =
                    CASE k = "SDLK_UP" ->
                           IF my_wavedata.pitchindex = 7 THEN {} ELSE {"pitchindex"}
                      [] k = "SDLK_DOWN" ->
                           IF my_wavedata.pitchindex = 0 THEN {} ELSE {"pitchindex"}
                      [] k = "SDLK_i" -> {"instr"}
                      [] k = "SDLK_m" -> {"mute"}
                      [] k = "SDLK_BACKSPACE" -> {"colorblind"}
                      [] k \in {"SDLK_q", "SDLK_ESCAPE"} ->
                           IF quit = 1 THEN {} ELSE {"quit"}
                      [] OTHER -> {}
      ]_vars

\* Seven Ups and then the i key: the instrument has changed at the top index,
\* which the i key rewrote with its own value.
C18_Witness ==
    /\ prog = "game" /\ key = "SDLK_i" /\ instr = GUITAR
    /\ my_wavedata.pitchindex = 7 /\ events_left = MaxEvents - 8
    /\ quit = 0 /\ mute = 0 /\ colorblind = 0

\* C19: mute and colorblind are always 0 or 1 and instr always PIANO or
\* GUITAR; a toggle key (m, Backspace, i) handled when the key handled before
\* it was the same one, with any callback steps in between, puts the flag
\* back to the value it had before the first of the two; and the end of a
\* frame in which exactly two m keys were handled leaves the device as the
\* end of the previous frame left it.
C19_TogglesInvolutive ==
    /\ [](prog = "game" =>
            mute \in {0, 1} /\ colorblind \in {0, 1} /\ instr \in {PIANO, GUITAR})
    /\ [][hist.on /\ key' = key /\ game_KeyDownOf(key) =>
            /\ key = "SDLK_m" => mute' = hist.flags.mute /\ mute' # mute
            /\ key = "SDLK_BACKSPACE" =>
                  colorblind' = hist.flags.colorblind /\ colorblind' # colorblind
            /\ key = "SDLK_i" => instr' = hist.flags.instr /\ instr' # instr
         ]_vars
    /\ [][/\ hist.on /\ prog = "game" /\ pc = "poll" /\ pc' = "loop"
          /\ hist.m_keys = 2 /\ hist.end_dev # "none"
          => dev' = hist.end_dev
         ]_vars

\* A frame has ended in which the m key was handled twice, the second time
\* right after the first, in a session with a render call; the device plays
\* as it did at the end of the frame before.
C19_Witness ==
    /\ prog = "game" /\ hist.on /\ pc = "loop"
    /\ hist.m_keys = 2 /\ key = "SDLK_m" /\ hist.flags.mute = 1 /\ mute = 0
    /\ hist.prev_dev = "playing" /\ hist.end_dev = "playing" /\ dev = "playing"
    /\ renders_left = 0 /\ events_left = MaxToggleEvents - 2
====
